---------------------------- MODULE Spec2Model ----------------------------
(***************************************************************************)
(* A model of tvnamer's episode resolution and rename orchestration        *)
(* (src/tvnamer/main.py) and of its decision cache                         *)
(* (src/tvnamer/database.py).                                              *)
(*                                                                         *)
(* Strings of the program whose length or content the code inspects        *)
(* (series names, user input) are sequences of one-character strings.      *)
(* Python's None is the value None below.  The columns of the cache table  *)
(* are modelled as nullable, as KVStore.to_dict (which drops the None      *)
(* columns of a row) and upsert (which inserts only the supplied columns)  *)
(* take them to be.                                                        *)
(***************************************************************************)
EXTENDS Integers, Sequences, FiniteSets, TLC

\* Python's None among values that are strings of the program
None == <<"None">>

\* no error: the resolver returned
NoError == "NoError"

(***************************************************************************)
(* Bounds of the model.                                                    *)
(***************************************************************************)
\* files in one batch
NFiles == 3
\* answers of more than one character one file's series-name prompt receives
\* before the user gives up (Spec only)
MaxAnswers == 2
\* cache operations in one behaviour of SpecDb
MaxDbOps == 2

VARIABLES
    Config,      \* the process-wide configuration (main.py: Config)
    session,     \* the cache rows as the open SQLAlchemy session sees them
    disk,        \* the committed cache rows (what a new process would read)
    hist,        \* SpecDb: the cache calls made so far, each with the rows before it
    progress_total, \* tvnamer(): the number of episodes of the batch
    started,     \* number of files process_file has been invoked for
    pc,          \* position of the pipeline
    ep,          \* the episode being processed
    retries,     \* get_episode_name_maybe_prompt: retries
    force_name,  \* get_episode_name_maybe_prompt: force_name (the user's last answer)
    new_name,    \* generate_filename_and_rename: new_name
    status,      \* how the batch stands: running, done, or the exception that ended it
    assigned,    \* per file of this batch: the planner's computed and final name
                 \* and the answer given to its rename confirmation
    calls,       \* resolver calls made for the current file
    answers,     \* answers of more than one character given for the current file
    lastError,   \* the error the last resolver call raised, NoError when it returned
    lastCall     \* the last call made for the current file to the resolver or to
                 \* do_file_operation: its arguments and how it ended

vars == <<Config, session, disk, hist, progress_total, started, pc, ep, retries, force_name,
          new_name, status, assigned, calls, answers, lastError, lastCall>>

pipeVars == <<Config, progress_total, started, pc, ep, retries, force_name, new_name, status,
              assigned, calls, answers, lastError, lastCall>>

-----------------------------------------------------------------------------
(***************************************************************************)
(* database.py: the decision cache.                                        *)
(***************************************************************************)

\* the non-key columns of KVStore
Fields == {"seriesid", "season", "episode", "newfilename"}

SeriesIds == {<<"id1">>, <<"id2">>}

\* the empty table
NoRows == [p \in {} |-> None]

\* a row with every column NULL
NullRow == [k \in Fields |-> None]

\* dict.update(other): the keys of other win
DictUpdate(d, other) ==
    [k \in (DOMAIN d) \cup (DOMAIN other) |->
        IF k \in DOMAIN other THEN other[k] ELSE d[k]]

\* KVStore.to_dict: the columns of the row that are not None
to_dict(row) ==
    LET keys == {k \in Fields : row[k] # None}
    IN  [k \in keys |-> row[k]]

\* the keyword arguments of an upsert call that are not None
SuppliedValues(args) ==
    LET keys == {k \in Fields : args[k] # None}
    IN  [k \in keys |-> args[k]]

\* upsert with the update the other way round: the supplied values win over the stored ones
upsertSuppliedWins(rows, fullfilename, args) ==
    LET existing == fullfilename \in DOMAIN rows
        old      == IF existing THEN rows[fullfilename] ELSE NullRow
        new      == [k \in Fields |-> IF args[k] # None THEN args[k] ELSE old[k]]
    IN  [p \in (DOMAIN rows) \cup {fullfilename} |->
            IF p = fullfilename THEN new ELSE rows[p]]

\* upsert without the merge: the row is replaced by the supplied values
upsertReplacesRow(rows, fullfilename, args) ==
    [p \in (DOMAIN rows) \cup {fullfilename} |->
        IF p = fullfilename THEN [k \in Fields |-> args[k]] ELSE rows[p]]

\* upsert: the rows after the INSERT .. ON CONFLICT DO UPDATE
upsert(rows, fullfilename, args) ==
    LET existing == fullfilename \in DOMAIN rows
        supplied == SuppliedValues(args)
        values   == IF existing
                    THEN DictUpdate(supplied, to_dict(rows[fullfilename]))
                    ELSE supplied
        old      == IF existing THEN rows[fullfilename] ELSE NullRow
        new      == [k \in Fields |-> IF k \in DOMAIN values THEN values[k] ELSE old[k]]
    IN  [p \in (DOMAIN rows) \cup {fullfilename} |->
            IF p = fullfilename THEN new ELSE rows[p]]

\* lookup: the series id stored for the path, None without a row
lookup(rows, fullfilename) ==
    IF fullfilename \in DOMAIN rows THEN rows[fullfilename].seriesid ELSE None

\* find_by_newname: one_or_none() of the rows with this newfilename
find_by_newname(rows, newfilename) ==
    LET hits == {p \in DOMAIN rows : rows[p].newfilename = newfilename}
    IN  IF hits = {} THEN [kind |-> "none", fullfilename |-> None]
        ELSE IF Cardinality(hits) = 1
             THEN [kind |-> "row", fullfilename |-> CHOOSE p \in hits : TRUE]
             ELSE [kind |-> "MultipleResultsFound", fullfilename |-> None]

\* forget: the rows after the DELETE
forget(rows, fullfilename) ==
    [p \in (DOMAIN rows) \ {fullfilename} |-> rows[p]]

-----------------------------------------------------------------------------
(***************************************************************************)
(* The collaborators main.py calls whose code is not part of the modelled  *)
(* sources: the metadata resolver (BaseInfo.populate_from_tvdb), the       *)
(* filename formatter (BaseInfo.generate_filename), the user at the        *)
(* terminal and Renamer.new_path.                                          *)
(***************************************************************************)

\* series names: one the provider resolves, one it does not
GoodName == <<"g", "o">>
BadName == <<"n", "o">>
ValidNames == {GoodName}

\* the series id the provider's name search yields
NameToId(name) == <<"id1">>

\* a series id the provider does not know
UnknownId == <<"id0">>

\* destination names the formatter computes, and the marker add_variant appends
BaseNames == {<<"A">>, <<"B">>}
VariantMarker == "(2)"

\* the current name of the k-th file of the batch when it is not yet correctly named
SourceName(k) == <<"src", ToString(k)>>

IdentityErrors == {"ShowNotFound", "SeasonNotFound", "EpisodeNotFound", "EpisodeNameNotFound"}
EpisodeErrors == {"SeasonNotFound", "EpisodeNotFound", "EpisodeNameNotFound"}

\* what the terminal may deliver to input(): a line, or the interrupt
Interrupt == "KeyboardInterrupt"
InputLines == {<<>>, <<" ">>, <<"x">>, <<" ", "x", " ">>, GoodName, BadName}

RECURSIVE lstrip(_)
lstrip(s) == IF s # <<>> /\ Head(s) = " " THEN lstrip(Tail(s)) ELSE s

RECURSIVE rstrip(_)
rstrip(s) == IF s # <<>> /\ s[Len(s)] = " " THEN rstrip(SubSeq(s, 1, Len(s) - 1)) ELSE s

\* str.strip()
strip(s) == rstrip(lstrip(s))

\* Python's "a or b" on values that are None, a string or a series id
Or(a, b) == IF a # None /\ a # <<>> THEN a ELSE b

\* BaseInfo.populate_from_tvdb: the outcomes the provider may produce for the
\* hints.  An explicit series id bypasses the name search; a failure past the
\* show lookup may or may not have left the seriesid attribute set.
populate_from_tvdb(seriesname, forced, series_id) ==
    LET name  == Or(forced, seriesname)
        found == IF series_id # None THEN series_id \in SeriesIds ELSE name \in ValidNames
        id    == IF series_id # None THEN series_id ELSE NameToId(name)
    IN  {[error |-> "DataRetrievalError", setsid |-> FALSE, seriesid |-> None]}
        \cup (IF ~found
              THEN {[error |-> "ShowNotFound", setsid |-> FALSE, seriesid |-> None]}
              ELSE {[error |-> NoError, setsid |-> TRUE, seriesid |-> id]}
                   \cup {[error |-> e, setsid |-> b, seriesid |-> IF b THEN id ELSE None] :
                            e \in EpisodeErrors, b \in BOOLEAN})

\* BaseInfo.generate_filename
generate_filename(episode, add_variant) ==
    IF add_variant THEN Append(episode.dest, VariantMarker) ELSE episode.dest

\* Renamer.new_path: the file operation succeeds or raises
NewPathOutcomes == {"ok", "FileExistsError", "OSError"}

-----------------------------------------------------------------------------
(***************************************************************************)
(* main.py: the state of one batch.                                        *)
(***************************************************************************)

SkipBehaviours == {"exit", "ask", "skip"}

Configs ==
    [skip_behaviour : SkipBehaviours,
     always_rename : BOOLEAN,
     skip_file_on_error : BOOLEAN,
     dry_run : BOOLEAN,
     remember_choice : BOOLEAN,
     force_name : {None, GoodName, BadName},
     series_id : {None, <<"id2">>, UnknownId}]

NoEpisode == [fullfilename |-> None, seriesname |-> None, dest |-> None,
              hasSeriesid |-> FALSE, seriesid |-> None]

NoEntry == [fullfilename |-> None, computed |-> None, final |-> None, answer |-> "none"]

\* no call made yet for the current file
NoCall == [fn |-> "none", args |-> <<>>, outcome |-> "none", result |-> "none"]

Files == 1 .. NFiles

\* the names of the files process_file has been invoked for
NamesInBatch == {assigned[k].fullfilename : k \in 1 .. started}

\* the parsed episodes the k-th file of the batch may be: its name is its own
\* source name, or already the name the formatter computes for it
ParsedEpisodes(k) ==
    {[fullfilename |-> IF correct THEN d ELSE SourceName(k), seriesname |-> n,
      dest |-> d, hasSeriesid |-> FALSE, seriesid |-> None] :
        n \in {GoodName, BadName}, d \in BaseNames, correct \in BOOLEAN}

Terminal == status # "running"

-----------------------------------------------------------------------------
(***************************************************************************)
(* main.py: the pipeline.  A step runs the code from one blocking call     *)
(* (the provider, a prompt, the file operation) to the next.               *)
(***************************************************************************)

Min(a, b) == IF a < b THEN a ELSE b

\* lookup_previous_choice without the test of should_lookup
lookup_previous_choiceAlways(should_lookup, fullfilename) ==
    lookup(session, fullfilename)

\* lookup_previous_choice
lookup_previous_choice(should_lookup, fullfilename) ==
    IF ~should_lookup THEN None ELSE lookup(session, fullfilename)

\* store_new_choice: the rows after its upsert
store_new_choice(rows, fullfilename, seriesid) ==
    upsert(rows, fullfilename,
           [seriesid |-> seriesid, season |-> <<"01">>, episode |-> <<"1">>, newfilename |-> None])

\* StrictErrors with the test of skip_file_on_error inverted
StrictErrorsInverted == Config.always_rename /\ ~Config.skip_file_on_error

\* the always-rename and skip-on-error combination of lines 241 and 257
StrictErrors == Config.always_rename /\ Config.skip_file_on_error

\* HandlerMayAsk extended to the handler of the season and episode errors
HandlerMayAskEpisodeErrors(error) ==
    \/ error = "ShowNotFound"
    \/ (error \in {"DataRetrievalError"} \cup EpisodeErrors /\ StrictErrors)

\* the errors whose handler has the exit, ask and skip branches: ShowNotFound
\* (lines 227-238) and DataRetrievalError under StrictErrors (lines 240-252)
HandlerMayAsk(error) ==
    \/ error = "ShowNotFound"
    \/ (error = "DataRetrievalError" /\ StrictErrors)

\* the file is done with: process_file returns to the loop of tvnamer
EndFile ==
    /\ pc' = "next"
    /\ ep' = NoEpisode
    /\ retries' = 0
    /\ force_name' = None
    /\ new_name' = None
    /\ calls' = 0
    /\ answers' = 0
    /\ lastError' = NoError

\* an exception leaves tvnamer(); main() reports it, or it escapes main()
Raise(exception) ==
    /\ status' = exception
    /\ UNCHANGED <<pc, ep, retries, force_name, new_name, calls, answers>>

\* line 265 and what follows it: the decremented counter ends the loop or starts
\* the next pass; after the loop the choice is stored and the episode returned
EndPass(episode, r) ==
    /\ retries' = r
    /\ ep' = episode
    /\ IF r > 0
       THEN /\ pc' = "resolve"
            /\ UNCHANGED <<session, disk>>
       ELSE /\ pc' = "plan"
            /\ session' = IF episode.hasSeriesid
                          THEN store_new_choice(session, episode.fullfilename,
                                                Or(episode.seriesid, None))
                          ELSE session
            /\ disk' = session'

\* tvnamer(), lines 434-444: process_file for the next episode, or done
ProcessFile ==
    /\ status = "running"
    /\ pc = "next"
    /\ IF started < progress_total
       THEN /\ started' = started + 1
            /\ \E e \in ParsedEpisodes(started + 1) :
                  /\ e.fullfilename \notin NamesInBatch
                  /\ ep' = e
                  /\ assigned' = [assigned EXCEPT ![started + 1] =
                                     [NoEntry EXCEPT !.fullfilename = e.fullfilename]]
            /\ retries' = 1
            /\ force_name' = None
            /\ calls' = 0
            /\ answers' = 0
            /\ lastError' = NoError
            /\ pc' = "resolve"
            /\ UNCHANGED status
       ELSE /\ status' = "done"
            /\ pc' = "end"
            /\ UNCHANGED <<started, ep, assigned, retries, force_name, calls, answers,
                           lastError>>
    /\ lastCall' = NoCall
    /\ UNCHANGED <<Config, session, disk, hist, progress_total, new_name>>

\* get_episode_name_maybe_prompt, lines 203-265: one pass of the loop up to the
\* prompt for a series name
Resolve(outcomes) ==
    /\ status = "running"
    /\ pc = "resolve"
    /\ LET seriesname == IF Config.force_name # None THEN Config.force_name
                         ELSE ep.seriesname
           series_id  == Or(Config.series_id,
                            lookup_previous_choice(Config.remember_choice, ep.fullfilename))
           forced     == Or(Config.force_name, force_name)
       IN  \E o \in populate_from_tvdb(seriesname, forced, series_id) \cap outcomes :
             LET episode == [ep EXCEPT !.seriesname = seriesname,
                                       !.hasSeriesid = @ \/ o.setsid,
                                       !.seriesid = IF o.setsid THEN o.seriesid ELSE @]
             IN  /\ calls' = Min(calls + 1, MaxAnswers + 2)
                 /\ lastError' = o.error
                 /\ lastCall' = [fn |-> "populate_from_tvdb",
                                 args |-> <<forced, series_id>>,
                                 outcome |-> o.error,
                                 result |-> IF o.error = NoError THEN "returned"
                                            ELSE o.error]
                 /\ CASE o.error = NoError ->
                           /\ EndPass(episode, 0 - 1)
                           /\ UNCHANGED <<status, force_name, new_name, answers>>
                      [] HandlerMayAsk(o.error) ->
                           IF Config.skip_behaviour = "exit"
                           THEN /\ status' = "SkipBehaviourAbort"
                                /\ ep' = episode
                                /\ UNCHANGED <<pc, retries, force_name, new_name, answers,
                                               session, disk>>
                           ELSE IF Config.skip_behaviour = "ask"
                           THEN /\ pc' = "ask_series"
                                /\ ep' = episode
                                /\ UNCHANGED <<status, retries, force_name, new_name,
                                               answers, session, disk>>
                           ELSE /\ pc' = "next"
                                /\ ep' = NoEpisode
                                /\ retries' = 0
                                /\ UNCHANGED <<status, force_name, new_name, answers,
                                               session, disk>>
                      [] o.error = "DataRetrievalError" /\ ~StrictErrors ->
                           /\ EndPass(episode, retries - 1)
                           /\ UNCHANGED <<status, force_name, new_name, answers>>
                      [] o.error \in EpisodeErrors /\ StrictErrors ->
                           IF Config.skip_behaviour = "exit"
                           THEN /\ status' = "SkipBehaviourAbort"
                                /\ ep' = episode
                                /\ UNCHANGED <<pc, retries, force_name, new_name, answers,
                                               session, disk>>
                           ELSE /\ pc' = "next"
                                /\ ep' = NoEpisode
                                /\ retries' = 0
                                /\ UNCHANGED <<status, force_name, new_name, answers,
                                               session, disk>>
                      [] o.error \in EpisodeErrors /\ ~StrictErrors ->
                           /\ EndPass(episode, retries - 1)
                           /\ UNCHANGED <<status, force_name, new_name, answers>>
    /\ UNCHANGED <<Config, hist, progress_total, started, assigned>>


\* RetriesAfterAnswer without the length test: any answer that is not empty is retried
RetriesAfterAnyAnswer(answer, r) == IF Len(answer) > 0 THEN r + 1 ELSE r

\* lines 234-235 (248-249): an answer of more than one character earns a retry
RetriesAfterAnswer(answer, r) == IF Len(answer) > 1 THEN r + 1 ELSE r

\* ask_for_seriesname and lines 233-235 (247-249), then line 265: the user's
\* answer, or the interrupt, which nothing here catches
AskSeries(lines) ==
    /\ status = "running"
    /\ pc = "ask_series"
    /\ \/ /\ Raise(Interrupt)
          /\ UNCHANGED <<session, disk>>
       \/ \E line \in lines :
             LET answer == strip(line)
                 r      == RetriesAfterAnswer(answer, retries)
             IN  /\ force_name' = answer
                 /\ answers' = IF Len(answer) > 1 THEN Min(answers + 1, MaxAnswers)
                               ELSE answers
                 /\ EndPass(ep, r - 1)
                 /\ UNCHANGED <<status, new_name, calls>>
    /\ UNCHANGED <<Config, hist, progress_total, started, assigned, lastError, lastCall>>

\* generate_filename_and_rename, lines 271-306: the plan, up to the
\* confirmation prompt or the file operation
Plan ==
    /\ status = "running"
    /\ pc = "plan"
    /\ LET computed  == generate_filename(ep, FALSE)
           collision == find_by_newname(session, computed)
           final     == IF collision.kind = "row"
                           /\ collision.fullfilename # ep.fullfilename
                        THEN generate_filename(ep, TRUE)
                        ELSE computed
       IN  IF computed = ep.fullfilename
           THEN /\ new_name' = computed
                /\ assigned' = [assigned EXCEPT ![started] =
                                  [@ EXCEPT !.computed = computed, !.final = computed]]
                /\ pc' = "relocate"
                /\ UNCHANGED <<session, disk, status, ep, retries, force_name, calls,
                               answers, lastError>>
           ELSE IF collision.kind = "MultipleResultsFound"
           THEN /\ Raise("MultipleResultsFound")
                /\ UNCHANGED <<session, disk, assigned, lastError>>
           ELSE /\ session' = upsert(session, ep.fullfilename,
                                     [NullRow EXCEPT !.newfilename = final])
                /\ disk' = session'
                /\ assigned' = [assigned EXCEPT ![started] =
                                  [@ EXCEPT !.computed = computed, !.final = final]]
                /\ IF Config.dry_run
                   THEN /\ EndFile
                        /\ UNCHANGED status
                   ELSE /\ new_name' = final
                        /\ pc' = IF Config.always_rename THEN "relocate" ELSE "confirm"
                        /\ UNCHANGED <<status, ep, retries, force_name, calls, answers,
                                       lastError>>
    /\ UNCHANGED <<Config, hist, progress_total, started, lastCall>>

\* the answers confirm() returns for ask_for_rename (an empty line is the default)
ConfirmAnswers == {"y", "n", "a", "q"}

\* ConfigAfter in which the answer 'a' is taken as 'y'
ConfigAfterUnchanged(ans) == Config

\* lines 316-318: the answer 'a' sets Config["always_rename"]
ConfigAfter(ans) ==
    IF ans = "a" THEN [Config EXCEPT !.always_rename = TRUE] ELSE Config

\* ask_for_rename, lines 312-330, and confirm, lines 157-169
Confirm ==
    /\ status = "running"
    /\ pc = "confirm"
    /\ \/ /\ Raise("UserAbort")
          /\ UNCHANGED <<Config, lastError, assigned>>
       \/ \E ans \in ConfirmAnswers :
           /\ assigned' = [assigned EXCEPT ![started].answer = ans]
           /\
             CASE ans = "a" -> /\ Config' = ConfigAfter(ans)
                               /\ pc' = "relocate"
                               /\ UNCHANGED <<status, ep, retries, force_name, new_name,
                                              calls, answers, lastError>>
               [] ans = "q" -> /\ Raise("UserAbort")
                               /\ UNCHANGED <<Config, lastError>>
               [] ans = "y" -> /\ pc' = "relocate"
                               /\ UNCHANGED <<Config, status, ep, retries, force_name,
                                              new_name, calls, answers, lastError>>
               [] ans = "n" -> /\ EndFile
                               /\ UNCHANGED <<Config, status>>
    /\ UNCHANGED <<session, disk, hist, progress_total, started, lastCall>>

\* lines 116-120: Renamer.new_path is called when the argument check has passed
new_path_called(dest_dir, dest_filepath) ==
    Cardinality({x \in {"dest_dir", "dest_filepath"} :
                    [dest_dir |-> dest_dir, dest_filepath |-> dest_filepath][x] = None}) = 1

\* do_file_operation in which a failed operation aborts whatever the skip behaviour
do_file_operationAlwaysAborts(dest_dir, dest_filepath, outcome) ==
    IF outcome \in {"FileExistsError", "OSError"} THEN "SkipBehaviourAbort" ELSE "returned"

\* do_file_operation in which the arguments are checked only after the file
\* operation has succeeded
do_file_operationChecksLate(dest_dir, dest_filepath, outcome) ==
    IF outcome \in {"FileExistsError", "OSError"}
    THEN IF Config.skip_behaviour = "exit" THEN "SkipBehaviourAbort" ELSE "returned"
    ELSE IF (dest_dir = None) = (dest_filepath = None) THEN "ValueError" ELSE "returned"

\* do_file_operation in which a failed file operation never aborts
do_file_operationNeverAborts(dest_dir, dest_filepath, outcome) ==
    IF (dest_dir = None) = (dest_filepath = None) THEN "ValueError" ELSE "returned"

\* do_file_operation, lines 116-139: what the call ends with
do_file_operation(dest_dir, dest_filepath, outcome) ==
    IF Cardinality({x \in {"dest_dir", "dest_filepath"} :
                       [dest_dir |-> dest_dir, dest_filepath |-> dest_filepath][x] = None}) # 1
    THEN "ValueError"
    ELSE IF outcome \in {"FileExistsError", "OSError"}
         THEN IF Config.skip_behaviour = "exit" THEN "SkipBehaviourAbort" ELSE "returned"
         ELSE "returned"

\* generate_filename_and_rename, lines 308-309: the file operation
Relocate ==
    /\ status = "running"
    /\ pc = "relocate"
    /\ \E outcome \in NewPathOutcomes :
          LET result == do_file_operation(None, new_name, outcome)
          IN  /\ lastCall' = [fn |-> "do_file_operation",
                              args |-> <<None, new_name>>,
                              outcome |-> IF new_path_called(None, new_name)
                                          THEN outcome ELSE "not called",
                              result |-> result]
              /\ IF result = "returned"
                 THEN /\ EndFile
                      /\ UNCHANGED status
                 ELSE /\ Raise(result)
                      /\ UNCHANGED lastError
    /\ UNCHANGED <<Config, session, disk, hist, progress_total, started, assigned>>

-----------------------------------------------------------------------------
\* what the pipeline's variables are before the first file
Idle ==
    /\ hist = <<>>
    /\ started = 0
    /\ pc = "next"
    /\ ep = NoEpisode
    /\ retries = 0
    /\ force_name = None
    /\ new_name = None
    /\ status = "running"
    /\ assigned = [k \in Files |-> NoEntry]
    /\ calls = 0
    /\ answers = 0
    /\ lastError = NoError
    /\ lastCall = NoCall

\* a path of an earlier run that is not in this batch
OtherPath == <<"other">>

\* the rows an earlier run may have left for one path: the series id with its
\* labels, a destination, or both
PriorRows ==
    {[seriesid |-> id, season |-> IF id = None THEN None ELSE <<"01">>,
      episode |-> IF id = None THEN None ELSE <<"1">>, newfilename |-> n] :
        id \in SeriesIds \cup {None}, n \in BaseNames \cup {None}} \ {NullRow}

\* the caches a run may start from: empty, or one row of an earlier run, for
\* the file's own path or holding a destination for another path
PriorCaches ==
    {NoRows}
    \cup {[p \in {SourceName(1)} |-> row] : row \in PriorRows}
    \cup {[p \in {OtherPath} |-> row] : row \in {r \in PriorRows : r.newfilename # None}}

\* batches of NFiles files on an empty cache, the series taken from the file names
InitBatch ==
    /\ Config \in {c \in Configs : /\ c.force_name = None
                                   /\ c.series_id = None
                                   /\ c.remember_choice}
    /\ progress_total = NFiles
    /\ session = NoRows

\* one file under every configuration, on the caches earlier runs may have left
InitFile ==
    /\ Config \in Configs
    /\ progress_total = 1
    /\ session \in PriorCaches

Init ==
    /\ InitBatch \/ InitFile
    /\ disk = session
    /\ Idle

\* the lines that earn no retry: the user has given up on the file
ShortLines == {line \in InputLines : Len(strip(line)) <= 1}

AllOutcomes == [error : {NoError, "DataRetrievalError"} \cup IdentityErrors,
                setsid : BOOLEAN, seriesid : SeriesIds \cup {None}]

Next ==
    \/ ProcessFile
    \/ Resolve(AllOutcomes)
    \/ AskSeries(IF answers < MaxAnswers THEN InputLines ELSE ShortLines)
    \/ Plan
    \/ Confirm
    \/ Relocate

Spec == Init /\ [][Next]_vars

\* The user answers every series-name prompt with a name the provider resolves,
\* and the provider is reachable; every call returns, so the pipeline keeps
\* taking steps.
InitLive ==
    /\ InitFile
    /\ Config.skip_behaviour = "ask"
    /\ disk = session
    /\ Idle

NextLive ==
    \/ ProcessFile
    \/ Resolve({o \in AllOutcomes : o.error # "DataRetrievalError"})
    \/ AskSeries({GoodName})
    \/ Plan
    \/ Confirm
    \/ Relocate

SpecLive == InitLive /\ [][NextLive]_vars /\ WF_vars(NextLive)

-----------------------------------------------------------------------------
(***************************************************************************)
(* The decision cache on its own: any caller's sequence of upsert and      *)
(* forget calls and process restarts, at most MaxDbOps of them.            *)
(***************************************************************************)

DbPaths == {SourceName(1), OtherPath}

DbArgs == [seriesid : SeriesIds \cup {None}, season : {<<"01">>, None},
           episode : {<<"1">>, None}, newfilename : BaseNames \cup {None}]

\* database.upsert: the statement and the commit
DbUpsert ==
    /\ Len(hist) < MaxDbOps
    /\ \E path \in DbPaths, args \in DbArgs :
          /\ hist' = Append(hist, [op |-> "upsert", path |-> path, args |-> args,
                                   before |-> session])
          /\ session' = upsert(session, path, args)
          /\ disk' = session'
    /\ UNCHANGED pipeVars

\* database.forget: the DELETE, which the function does not commit
DbForget ==
    /\ Len(hist) < MaxDbOps
    /\ \E path \in DbPaths :
          /\ hist' = Append(hist, [op |-> "forget", path |-> path, args |-> NullRow,
                                   before |-> session])
          /\ session' = forget(session, path)
          /\ UNCHANGED disk
    /\ UNCHANGED pipeVars

\* the process ends and a new one opens the cache (init_database)
DbRestart ==
    /\ Len(hist) < MaxDbOps
    /\ hist' = Append(hist, [op |-> "restart", path |-> None, args |-> NullRow,
                             before |-> session])
    /\ session' = disk
    /\ UNCHANGED disk
    /\ UNCHANGED pipeVars

InitDb ==
    /\ Config = [skip_behaviour |-> "skip", always_rename |-> FALSE,
                 skip_file_on_error |-> FALSE, dry_run |-> FALSE,
                 remember_choice |-> TRUE, force_name |-> None, series_id |-> None]
    /\ progress_total = 0
    /\ session \in PriorCaches
    /\ disk = session
    /\ Idle

NextDb == DbUpsert \/ DbForget \/ DbRestart

SpecDb == InitDb /\ [][NextDb]_vars

-----------------------------------------------------------------------------
(***************************************************************************)
(* do_file_operation on its own: any caller's calls, with every            *)
(* combination of the two destination arguments, under every               *)
(* configuration, until one raises.                                        *)
(***************************************************************************)

DestDirs == {None, <<"dir">>}
DestFilepaths == {None} \cup BaseNames

CallRelocator ==
    /\ status = "running"
    /\ \E dest_dir \in DestDirs, dest_filepath \in DestFilepaths,
          outcome \in NewPathOutcomes :
          LET result == do_file_operation(dest_dir, dest_filepath, outcome)
          IN  /\ lastCall' = [fn |-> "do_file_operation",
                              args |-> <<dest_dir, dest_filepath>>,
                              outcome |-> IF new_path_called(dest_dir, dest_filepath)
                                          THEN outcome ELSE "not called",
                              result |-> result]
              /\ status' = IF result = "returned" THEN "running" ELSE result
    /\ UNCHANGED <<Config, session, disk, hist, progress_total, started, pc, ep, retries,
                   force_name, new_name, assigned, calls, answers, lastError>>

InitOp ==
    /\ Config \in Configs
    /\ progress_total = 0
    /\ session = NoRows
    /\ disk = session
    /\ Idle

NextOp == CallRelocator

SpecOp == InitOp /\ [][NextOp]_vars

-----------------------------------------------------------------------------
(***************************************************************************)
(* Properties.                                                             *)
(***************************************************************************)

\* the last cache call and the one before it
LastOp == hist[Len(hist)]
PrevOp == hist[Len(hist) - 1]

\* the two calls of the cache merge law have just been made: upsert(p, seriesid=X)
\* for a path without a row, then upsert(p, newfilename=Y)
MergeLawCalls ==
    /\ Len(hist) >= 2
    /\ PrevOp.op = "upsert" /\ LastOp.op = "upsert"
    /\ PrevOp.path = LastOp.path
    /\ PrevOp.path \notin DOMAIN PrevOp.before
    /\ PrevOp.args.seriesid # None
    /\ PrevOp.args = [NullRow EXCEPT !.seriesid = PrevOp.args.seriesid]
    /\ LastOp.args.newfilename # None
    /\ LastOp.args = [NullRow EXCEPT !.newfilename = LastOp.args.newfilename]

\* C3: after upsert(p, seriesid=X) and then upsert(p, newfilename=Y) for a path p
\* without a prior row, p has the one row with seriesid X and newfilename Y and
\* nothing else set; the first call left the row with X alone set, and the rows
\* of the other paths are what they were.
C3_CacheMergeLaw ==
    MergeLawCalls =>
        LET p == LastOp.path
        IN  /\ DOMAIN session = (DOMAIN PrevOp.before) \cup {p}
            /\ session[p] = [NullRow EXCEPT !.seriesid = PrevOp.args.seriesid,
                                            !.newfilename = LastOp.args.newfilename]
            /\ LastOp.before[p] = [NullRow EXCEPT !.seriesid = PrevOp.args.seriesid]
            /\ \A q \in DOMAIN PrevOp.before :
                  session[q] = PrevOp.before[q] /\ LastOp.before[q] = PrevOp.before[q]
            /\ disk = session

C3_Witness ==
    /\ MergeLawCalls
    /\ OtherPath \in DOMAIN session
    /\ LastOp.path = SourceName(1)

\* C4: an upsert for a path that has a row leaves every supplied field equal to
\* the supplied value and every other field as it was.
C4_SuppliedFieldsWin ==
    (/\ Len(hist) >= 1
     /\ LastOp.op = "upsert"
     /\ LastOp.path \in DOMAIN LastOp.before) =>
        \A k \in Fields :
            session[LastOp.path][k] = IF LastOp.args[k] # None THEN LastOp.args[k]
                                      ELSE LastOp.before[LastOp.path][k]


\* the files of the batch the planner has planned
Planned == {k \in 1 .. started : assigned[k].final # None}

\* C1: of two files of a batch whose computed names are equal, the one
\* processed first is assigned that name and the one processed second the
\* variant-suffixed name.
C1_CollisionLaw ==
    \A j \in Planned, k \in Planned :
        (j < k /\ assigned[j].computed = assigned[k].computed) =>
            /\ assigned[j].final = assigned[j].computed
            /\ assigned[k].final = Append(assigned[k].computed, VariantMarker)

\* the first file is resolved and already carries the name computed for it; the
\* second, resolved too, computes the same name and is assigned it unsuffixed
C1_Witness ==
    /\ started = 2
    /\ pc = "confirm"
    /\ assigned[1].fullfilename = <<"A">>
    /\ assigned[1].final = <<"A">>
    /\ assigned[2].fullfilename = SourceName(2)
    /\ assigned[2].computed = <<"A">>
    /\ assigned[2].final = <<"A">>
    /\ \A p \in {<<"A">>, SourceName(2)} : p \in DOMAIN session /\ session[p].seriesid # None

\* C2: no two files of a batch are assigned the same final destination name.
C2_DestinationsUnique ==
    \A j \in Planned, k \in Planned :
        j # k => assigned[j].final # assigned[k].final

\* the resolution of the current file is under way
Resolving == status = "running" /\ pc \in {"resolve", "ask_series"}

\* C5: under 'ask', with a user who answers every prompt with a name the
\* provider resolves, the resolution of a file ends.
C5_ResolutionTerminates == (pc = "resolve") ~> ~Resolving

\* C6: the resolver is called again for a file only when the pass before ended
\* with an answer of more than one character; the calls for a file are at most
\* one more than such answers; the retry counter is 1 when a pass starts.
C6_NoRetryWithoutInput ==
    /\ [](pc = "resolve" => retries = 1)
    /\ [](calls <= 1 + answers)
    /\ [][(Resolving /\ pc' = "resolve" /\ status' = "running") =>
             (pc = "ask_series" /\ Len(force_name') > 1)]_vars

C6_Witness ==
    /\ pc = "resolve"
    /\ calls = 2
    /\ answers = 2

\* the step is a resolver call for the first file of a batch of several files
\* under 'exit' that raises this error
FirstFileHits(errors) ==
    /\ pc = "resolve"
    /\ started = 1
    /\ progress_total = NFiles
    /\ Config.skip_behaviour = "exit"
    /\ lastError' \in errors

\* C7 as claimed: under 'exit' any identity error of the first file aborts the
\* batch, and no later file is processed.
C7_AbortOnAnyIdentityError ==
    [][/\ FirstFileHits(IdentityErrors) => status' = "SkipBehaviourAbort"
       /\ status = "SkipBehaviourAbort" => started' = started]_vars

\* C7 as amended: under 'exit' the first file's ShowNotFound, or its
\* SeasonNotFound, EpisodeNotFound or EpisodeNameNotFound while always_rename
\* and skip_file_on_error are both set, aborts the batch, and no later file is
\* processed.
C7_AbortPropagation ==
    [][/\ FirstFileHits({"ShowNotFound"}) => status' = "SkipBehaviourAbort"
       /\ (/\ FirstFileHits(EpisodeErrors)
           /\ Config.always_rename
           /\ Config.skip_file_on_error) => status' = "SkipBehaviourAbort"
       /\ status = "SkipBehaviourAbort" => started' = started]_vars

C7_Witness ==
    /\ status = "SkipBehaviourAbort"
    /\ started = 1
    /\ progress_total = NFiles
    /\ lastError \in EpisodeErrors

C9_UnresolvedNotPlanned ==
    pc \in {"plan", "confirm", "relocate"} => ep.hasSeriesid

\* C10: the relocator is not invoked for a file whose computed name is its
\* current name, whatever cache the earlier run left.
C10_NoRelocationWhenCorrectlyNamed ==
    (pc = "relocate" /\ ep.hasSeriesid) => new_name # ep.fullfilename

\* C11: a call of do_file_operation with both or with neither of dest_dir and
\* dest_filepath raises ValueError without Renamer.new_path having been called,
\* whatever the file operation would have done and whatever the skip behaviour;
\* a call with exactly one of them does not raise ValueError.
C11_ArgumentContract ==
    lastCall.fn = "do_file_operation" =>
        IF (lastCall.args[1] = None) = (lastCall.args[2] = None)
        THEN /\ lastCall.result = "ValueError"
             /\ lastCall.outcome = "not called"
             /\ status = "ValueError"
        ELSE /\ lastCall.result # "ValueError"
             /\ status # "ValueError"

C11_Witness ==
    /\ lastCall.fn = "do_file_operation"
    /\ lastCall.args = <<(<<"dir">>), (<<"A">>)>>
    /\ lastCall.result = "ValueError"
    /\ Config.skip_behaviour = "skip"

\* C12: when the file operation of do_file_operation fails (FileExistsError or
\* another OSError), the call raises SkipBehaviourAbort, ending the batch, exactly
\* when the skip behaviour is 'exit'; under 'skip' and 'ask' it returns, nobody
\* is prompted and the loop of tvnamer goes on to the next file.
C12_RelocatorFailureHandling ==
    lastCall.fn = "do_file_operation" =>
        /\ lastCall.outcome \in {"FileExistsError", "OSError"} =>
              IF Config.skip_behaviour = "exit"
              THEN lastCall.result = "SkipBehaviourAbort" /\ status = "SkipBehaviourAbort"
              ELSE lastCall.result = "returned" /\ status = "running" /\ pc = "next"
        /\ status = "SkipBehaviourAbort" =>
              /\ Config.skip_behaviour = "exit"
              /\ lastCall.outcome \in {"FileExistsError", "OSError"}

C12_Witness ==
    /\ lastCall.fn = "do_file_operation"
    /\ lastCall.outcome = "FileExistsError"
    /\ Config.skip_behaviour = "ask"
    /\ pc = "next"
    /\ started = 1
    /\ progress_total = NFiles

\* C13: an interrupt at a prompt ends the batch as UserAbort; KeyboardInterrupt
\* never leaves tvnamer().
C13_CleanUserAbort == status # Interrupt

\* C14: once forget(p) has been called and p has not been upserted since, p has
\* no row: lookup(p) is None and find_by_newname does not return p, also after
\* upserts of other paths and after a restart of the process.
C14_ForgetIsDurable ==
    \A i \in 1 .. Len(hist) :
        (/\ hist[i].op = "forget"
         /\ \A j \in (i + 1) .. Len(hist) :
               ~(hist[j].op = "upsert" /\ hist[j].path = hist[i].path)) =>
            /\ hist[i].path \notin DOMAIN session
            /\ lookup(session, hist[i].path) = None
            /\ \A n \in BaseNames :
                  find_by_newname(session, n).fullfilename # hist[i].path

\* C15: the series id passed to the resolver on a pass is the configured
\* series id when there is one; otherwise the series id of the cache record of
\* the file's path when remember_choice is on and the record exists; otherwise
\* None.
C15_HintPrecedence ==
    [][(pc = "resolve" /\ status = "running") =>
          /\ lastCall'.fn = "populate_from_tvdb"
          /\ lastCall'.args[2] =
                IF Config.series_id # None THEN Config.series_id
                ELSE IF Config.remember_choice /\ ep.fullfilename \in DOMAIN session
                     THEN session[ep.fullfilename].seriesid
                     ELSE None]_vars

C15_Witness ==
    /\ lastCall.fn = "populate_from_tvdb"
    /\ lastCall.args[2] = <<"id2">>
    /\ Config.series_id = None
    /\ Config.remember_choice
    /\ calls = 1

\* C16: when the resolution of a file has succeeded with a series id, the cache
\* returns that id for the file's path once get_episode_name_maybe_prompt has
\* returned.
C16_ResolutionPersistsId ==
    (pc = "plan" /\ lastError = NoError) =>
        lookup(session, ep.fullfilename) = ep.seriesid

\* C17: once the planner has assigned a file a destination other than its
\* current name, the cache record of the file's path has that destination.
C17_PlannerPersistsDestination ==
    \A k \in Planned :
        assigned[k].final # assigned[k].fullfilename =>
            /\ assigned[k].fullfilename \in DOMAIN session
            /\ session[assigned[k].fullfilename].newfilename = assigned[k].final

\* C18: a step of a file's processing whose last resolver call ended with an
\* identity error changes nothing in the cache.
C18_OnlyResolvedWrite ==
    [][(status = "running" /\ pc \in {"resolve", "ask_series", "plan"}
        /\ (IF pc = "resolve" THEN lastError' ELSE lastError) \in IdentityErrors) =>
          (session' = session /\ disk' = disk)]_vars

\* C19: a resolver call that ends with DataRetrievalError outside the
\* always_rename and skip_file_on_error combination neither aborts the batch
\* nor prompts, and the next step is another resolver call for the same file.
C19_TransportErrorRetried ==
    [][(pc = "resolve" /\ status = "running"
        /\ lastError' = "DataRetrievalError" /\ ~StrictErrors) =>
          (status' = "running" /\ pc' = "resolve" /\ started' = started)]_vars

\* C20: a resolver call that ends with SeasonNotFound, EpisodeNotFound or
\* EpisodeNameNotFound is never followed by the series-name prompt and never
\* raises the retry counter; with always_rename and skip_file_on_error it
\* aborts the batch under 'exit' and ends the file without a plan under 'ask'
\* and 'skip'.
C20_EpisodeErrorsNeverPrompt ==
    [][(pc = "resolve" /\ status = "running" /\ lastError' \in EpisodeErrors) =>
          /\ pc' # "ask_series"
          /\ retries' <= retries
          /\ answers' = answers
          /\ StrictErrors =>
                IF Config.skip_behaviour = "exit"
                THEN status' = "SkipBehaviourAbort" /\ pc' # "plan"
                ELSE status' = "running" /\ pc' = "next" /\ session' = session]_vars

C20_Witness ==
    /\ status = "running"
    /\ pc = "next"
    /\ lastError \in EpisodeErrors
    /\ lastCall.fn = "populate_from_tvdb"
    /\ Config.skip_behaviour = "ask"
    /\ StrictErrors

\* an earlier file of the batch had its rename confirmation answered with 'a'
AlwaysAnswered == \E j \in 1 .. (started - 1) : assigned[j].answer = "a"

\* C21: once a rename confirmation has been answered with 'a', always_rename is
\* set and stays set, no later file of the batch is shown a rename confirmation,
\* and every later file that reaches the planner outside dry_run goes on to the
\* file operation.
C21_AlwaysRenameSticky ==
    /\ []((\E j \in 1 .. started : assigned[j].answer = "a") => Config.always_rename)
    /\ [](AlwaysAnswered => (pc # "confirm" /\ assigned[started].answer = "none"))
    /\ [][(AlwaysAnswered /\ status = "running" /\ pc = "plan" /\ ~Config.dry_run) =>
             (status' = "running" /\ pc' = "relocate")]_vars

C21_Witness ==
    /\ started = NFiles
    /\ assigned[1].answer = "a"
    /\ pc = "relocate"
    /\ new_name # ep.fullfilename
    /\ ep.hasSeriesid

\* C22: an upsert for a path that has a row leaves every field of the row that
\* was not None as it was, and sets the fields that were None to the supplied
\* values.
C22_WriteOnceFields ==
    (/\ Len(hist) >= 1
     /\ LastOp.op = "upsert"
     /\ LastOp.path \in DOMAIN LastOp.before) =>
        \A k \in Fields :
            session[LastOp.path][k] =
                IF LastOp.before[LastOp.path][k] # None
                THEN LastOp.before[LastOp.path][k]
                ELSE LastOp.args[k]

C22_Witness ==
    /\ Len(hist) >= 1
    /\ LastOp.op = "upsert"
    /\ LastOp.path \in DOMAIN LastOp.before
    /\ LastOp.before[LastOp.path].seriesid = <<"id1">>
    /\ LastOp.args.seriesid = <<"id2">>
    /\ LastOp.before[LastOp.path].newfilename = None
    /\ LastOp.args.newfilename = <<"B">>

\* C23: under dry_run no rename confirmation is shown and do_file_operation is
\* not called.
C23_DryRunNoFileOperation ==
    Config.dry_run =>
        /\ pc \notin {"confirm", "relocate"}
        /\ lastCall.fn # "do_file_operation"

\* C24: the batch ends with SkipBehaviourAbort only under 'exit'; under 'skip'
\* and 'ask' it ends only as done or with UserAbort.
C24_AbortOnlyUnderExit ==
    /\ status = "SkipBehaviourAbort" => Config.skip_behaviour = "exit"
    /\ Config.skip_behaviour \in {"skip", "ask"} =>
          status \in {"running", "done", "UserAbort"}

=============================================================================
